---- MODULE Spec2Model ----
(***************************************************************************)
(* The redb key-value backend of lib/src/kvs/redb/mod.rs: a Datastore that *)
(* begins engine transactions and a Transaction that wraps one of them     *)
(* behind a closed flag (ok), a mode flag (rw) and a locked Option slot    *)
(* (tx).  The engine (redb) is modelled by its committed table, by the     *)
(* private table of every engine transaction and by its rule that one      *)
(* write transaction is in flight at a time.                               *)
(*                                                                         *)
(* A panic (unwrap() on an empty slot, unreachable!()) is an outcome of a  *)
(* call: it unwinds out of the call and leaves the Transaction's fields as *)
(* they were assigned up to that point.                                    *)
(*                                                                         *)
(* The engine may refuse to begin, commit or abort a transaction (the      *)
(* input e of transaction, commit and cancel).  Its table calls            *)
(* (open_table, get, insert, remove, range) are taken to succeed: their    *)
(* safe_unwrap! would return Error::Ds before anything is changed.         *)
(***************************************************************************)
EXTENDS Integers, Sequences, FiniteSets

\* ------------------------------------------------------------------ bounds
\* Transactions the Datastore hands out in one behaviour.
MaxTxn == 2
\* Largest scan limit tried.
MaxLimit == 2

\* ------------------------------------------------------------------ data
\* Keys are byte strings, ordered as Rust orders slices (lexicographically,
\* a proper prefix first).
Keys == {<<1, 1>>, <<2>>}
\* The ranges scanned (Range<Key>, start inclusive and end exclusive): around
\* both keys, from a key to a key, from a key on, and one with start > end.
Range(a, b) == [start |-> a, end |-> b]
ScanRanges == {Range(<<1>>, <<3>>), Range(<<1, 1>>, <<2>>), Range(<<2>>, <<3>>),
               Range(<<2>>, <<1, 1>>)}
\* Values are opaque byte strings; two distinct ones are named 1 and 2.
Vals == {1, 2}
TxnIds == 1 .. MaxTxn

\* Option<T>
None == <<>>
Some(x) == <<x>>
OptVal == {None} \cup {Some(v) : v \in Vals}

\* &[u8] comparison: a < b
RECURSIVE KeyLess(_, _)
KeyLess(a, b) ==
    IF b = <<>> THEN FALSE
    ELSE IF a = <<>> THEN TRUE
    ELSE IF Head(a) # Head(b) THEN Head(a) < Head(b)
    ELSE KeyLess(Tail(a), Tail(b))

KeyLeq(a, b) == a = b \/ KeyLess(a, b)

\* ------------------------------------------------------------------ engine
\* The table "surreal_db" as a map from key to Option<value>.
EmptyTable == [k \in Keys |-> None]

table_get(tb, k) == tb[k]
table_insert(tb, k, v) == [tb EXCEPT ![k] = Some(v)]
table_remove(tb, k) == [tb EXCEPT ![k] = None]

\* The least key of a non-empty set
MinKey(S) == CHOOSE k \in S : \A j \in S : KeyLeq(k, j)

RECURSIVE Ascending(_)
Ascending(S) ==
    IF S = {} THEN <<>>
    ELSE LET m == MinKey(S) IN <<m>> \o Ascending(S \ {m})

\* The keys in the order the table keeps them.
KeyOrder == Ascending(Keys)

\* Table::range(beg..end): the entries with beg <= key < end, ascending.
table_range(tb, beg, end) ==
    LET InRange(k) == tb[k] # None /\ KeyLeq(beg, k) /\ KeyLess(k, end)
        sq == SelectSeq(KeyOrder, InRange)
    IN [i \in 1 .. Len(sq) |-> <<sq[i], tb[sq[i]][1]>>]

\* Database::begin_read / begin_write: an engine transaction over its own
\* view of the table, which starts as the committed table.
\* base remembers the committed table the transaction began from.
begin_read(d) == [type |-> "Read", table |-> d, base |-> d]
begin_write(d) == [type |-> "Write", table |-> d, base |-> d]
\* WriteTransaction::commit publishes the transaction's table as one unit;
\* abort (and dropping an unfinished write transaction) publishes nothing.
engine_commit(d, tb) == tb
engine_abort(d, tb) == d

\* ------------------------------------------------------------------ state
VARIABLES
    db,      \* the committed table of the engine
    made,    \* the Transactions created so far
    ok,      \* Transaction.ok: is the transaction complete?
    rw,      \* Transaction.rw: is the transaction read+write?
    tx,      \* Transaction.tx: the Option<TransactionType> behind the mutex
    res,     \* the last call: who, what, with which arguments, and its outcome
    handles, \* how many Datastore values (Datastore::new and its clones) exist
    alive,   \* the Transactions that have not been dropped
    rc,      \* the strong count of the Arc<Database>
    lock,    \* per Transaction: is the futures Mutex around its slot held?
    pc       \* per Transaction: the call in progress on it and its position

\* What decides how long the engine lives.
life == <<handles, alive, rc>>

\* The mutex of each Transaction and the call that is running on it.
sync == <<lock, pc>>

vars == <<db, made, ok, rw, tx, res, handles, alive, rc, lock, pc>>

\* The Arc drops the Database when its strong count reaches zero.
released == rc = 0

WriteOps == {"set", "put", "putc", "del", "delc"}

\* One write transaction at a time: begin_write blocks while another is live.
WriterLive == \E t \in TxnIds : tx[t] # None /\ tx[t][1].type = "Write"

\* The record of a call: the Transaction, the operation, its outcome (Ok, an
\* Error or a panic) and the value returned with Ok.
Ret(t, op, out, ret) == [t |-> t, op |-> op, out |-> out, ret |-> ret]

\* No call is in progress.  A call in progress keeps its arguments and the
\* value it has read (key_result) until it returns.
Idle == [at |-> "idle", op |-> "none", k |-> <<>>, v |-> 0, chk |-> None, seen |-> None]

Init ==
    /\ db = EmptyTable
    /\ made = {}
    /\ ok = [t \in TxnIds |-> FALSE]
    /\ rw = [t \in TxnIds |-> FALSE]
    /\ tx = [t \in TxnIds |-> None]
    /\ res = Ret(0, "new", "Ok", None)
    /\ handles = 1
    /\ alive = {}
    /\ rc = 1
    /\ lock = [t \in TxnIds |-> FALSE]
    /\ pc = [t \in TxnIds |-> Idle]

\* Transaction::closed
closed(t) == ok[t]

\* ------------------------------------------------------------------ Datastore
\* The bound on the Datastore values that exist at once.
MaxClones == 2

\* Datastore::clone (derived): one more Datastore, one more strong reference.
clone ==
    /\ handles > 0
    /\ handles < MaxClones
    /\ handles' = handles + 1
    /\ rc' = rc + 1
    /\ res' = Ret(0, "clone", "Ok", None)
    /\ UNCHANGED <<db, made, ok, rw, tx, alive, sync>>

\* A Datastore goes out of scope: its field db, a strong reference, is dropped.
drop_Datastore ==
    /\ handles > 0
    /\ handles' = handles - 1
    /\ rc' = rc - 1
    /\ res' = Ret(0, "drop", "Ok", None)
    /\ UNCHANGED <<db, made, ok, rw, tx, alive, sync>>

\* A Transaction goes out of scope.  Its fields are dropped in the order of
\* their declaration: tx first, which ends the engine transaction if the slot
\* still holds one (a write transaction dropped unfinished is aborted), and
\* _db, the strong reference, last.
drop_Transaction(t) ==
    /\ t \in alive
    /\ tx' = [tx EXCEPT ![t] = None]
    /\ alive' = alive \ {t}
    /\ rc' = rc - 1
    /\ res' = Ret(t, "drop", "Ok", None)
    /\ UNCHANGED <<db, made, ok, rw, handles, sync>>

\* transaction as it would be if the Transaction kept no reference to the
\* Database (no field _db).
transaction_NoBackRef(write, e) ==
    LET t == Cardinality(made) + 1 IN
    /\ t \in TxnIds
    /\ handles > 0
    /\ write => ~WriterLive
    /\ UNCHANGED <<handles, rc, sync>>
    /\ IF ~e
       THEN /\ res' = Ret(0, "transaction", "Ds", None)
            /\ UNCHANGED <<db, made, ok, rw, tx, alive>>
       ELSE /\ made' = made \cup {t}
            /\ alive' = alive \cup {t}
            /\ ok' = [ok EXCEPT ![t] = FALSE]
            /\ rw' = [rw EXCEPT ![t] = write]
            /\ tx' = [tx EXCEPT ![t] =
                        Some(IF write THEN begin_write(db) ELSE begin_read(db))]
            /\ res' = Ret(t, "transaction", "Ok", None)
            /\ UNCHANGED db

\* Datastore::transaction(write, _).  e: the engine begins the transaction
\* (otherwise safe_unwrap! returns Error::Ds and no Transaction is built).
transaction(write, e) ==
    LET t == Cardinality(made) + 1 IN
    /\ t \in TxnIds
    /\ handles > 0
    /\ write => ~WriterLive
    /\ UNCHANGED <<handles, sync>>
    /\ IF ~e
       THEN /\ res' = Ret(0, "transaction", "Ds", None)
            /\ UNCHANGED <<db, made, ok, rw, tx, alive, rc>>
       ELSE /\ made' = made \cup {t}
            /\ alive' = alive \cup {t}
            /\ rc' = rc + 1
            /\ ok' = [ok EXCEPT ![t] = FALSE]
            /\ rw' = [rw EXCEPT ![t] = write]
            /\ tx' = [tx EXCEPT ![t] =
                        Some(IF write THEN begin_write(db) ELSE begin_read(db))]
            /\ res' = Ret(t, "transaction", "Ok", None)
            /\ UNCHANGED db

\* ------------------------------------------------------------------ Transaction
\* cancel as it would be if it committed the write transaction it takes
\* out of the slot instead of aborting it.
cancel_Commits(t, e) ==
    /\ t \in made
    /\ UNCHANGED <<made, rw, life, sync>>
    /\ IF ok[t]
       THEN /\ res' = Ret(t, "cancel", "TxFinished", None)
            /\ UNCHANGED <<db, ok, tx>>
       ELSE /\ ok' = [ok EXCEPT ![t] = TRUE]
            /\ tx' = [tx EXCEPT ![t] = None]
            /\ IF tx[t] = None
               THEN /\ res' = Ret(t, "cancel", "PanicUnreachable", None)
                    /\ UNCHANGED db
               ELSE IF tx[t][1].type = "Read"
               THEN /\ res' = Ret(t, "cancel", "Ok", None)
                    /\ UNCHANGED db
               ELSE /\ db' = engine_commit(db, tx[t][1].table)
                    /\ res' = Ret(t, "cancel", IF e THEN "Ok" ELSE "Ds", None)

\* cancel as it would be if it ended the Transaction through the empty
\* TransactionType::rollback and left the engine transaction in the slot.
cancel_KeepsTx(t, e) ==
    /\ t \in made
    /\ UNCHANGED <<made, rw, life, sync>>
    /\ IF ok[t]
       THEN /\ res' = Ret(t, "cancel", "TxFinished", None)
            /\ UNCHANGED <<db, ok, tx>>
       ELSE /\ ok' = [ok EXCEPT ![t] = TRUE]
            /\ res' = Ret(t, "cancel", "Ok", None)
            /\ UNCHANGED <<db, tx>>

\* Transaction::cancel.  e: the engine's abort succeeds.
cancel(t, e) ==
    /\ t \in made
    /\ UNCHANGED <<made, rw, life, sync>>
    /\ IF ok[t]
       THEN /\ res' = Ret(t, "cancel", "TxFinished", None)
            /\ UNCHANGED <<db, ok, tx>>
       ELSE /\ ok' = [ok EXCEPT ![t] = TRUE]
            /\ tx' = [tx EXCEPT ![t] = None]
            /\ IF tx[t] = None
               THEN /\ res' = Ret(t, "cancel", "PanicUnreachable", None)
                    /\ UNCHANGED db
               ELSE IF tx[t][1].type = "Read"
               THEN /\ res' = Ret(t, "cancel", "Ok", None)
                    /\ UNCHANGED db
               ELSE /\ db' = engine_abort(db, tx[t][1].table)
                    /\ res' = Ret(t, "cancel", IF e THEN "Ok" ELSE "Ds", None)

\* commit as it would be if it marked the transaction done only after the
\* engine's commit had succeeded.
commit_MarksAfter(t, e) ==
    /\ t \in made
    /\ UNCHANGED <<made, rw, life, sync>>
    /\ IF ok[t]
       THEN /\ res' = Ret(t, "commit", "TxFinished", None)
            /\ UNCHANGED <<db, ok, tx>>
       ELSE IF ~rw[t]
       THEN /\ res' = Ret(t, "commit", "TxReadonly", None)
            /\ UNCHANGED <<db, ok, tx>>
       ELSE /\ tx' = [tx EXCEPT ![t] = None]
            /\ IF tx[t] = None \/ tx[t][1].type = "Read"
               THEN /\ res' = Ret(t, "commit", "PanicUnreachable", None)
                    /\ UNCHANGED <<db, ok>>
               ELSE IF e
               THEN /\ db' = engine_commit(db, tx[t][1].table)
                    /\ ok' = [ok EXCEPT ![t] = TRUE]
                    /\ res' = Ret(t, "commit", "Ok", None)
               ELSE /\ db' = engine_abort(db, tx[t][1].table)
                    /\ UNCHANGED ok
                    /\ res' = Ret(t, "commit", "Ds", None)

\* commit as it would be if it marked the transaction done before it checked
\* that the transaction is writable.
commit_MarksFirst(t, e) ==
    /\ t \in made
    /\ UNCHANGED <<made, rw, life, sync>>
    /\ IF ok[t]
       THEN /\ res' = Ret(t, "commit", "TxFinished", None)
            /\ UNCHANGED <<db, ok, tx>>
       ELSE /\ ok' = [ok EXCEPT ![t] = TRUE]
            /\ IF ~rw[t]
               THEN /\ res' = Ret(t, "commit", "TxReadonly", None)
                    /\ UNCHANGED <<db, tx>>
               ELSE /\ tx' = [tx EXCEPT ![t] = None]
                    /\ IF tx[t] = None \/ tx[t][1].type = "Read"
                       THEN /\ res' = Ret(t, "commit", "PanicUnreachable", None)
                            /\ UNCHANGED db
                       ELSE IF e
                       THEN /\ db' = engine_commit(db, tx[t][1].table)
                            /\ res' = Ret(t, "commit", "Ok", None)
                       ELSE /\ db' = engine_abort(db, tx[t][1].table)
                            /\ res' = Ret(t, "commit", "Ds", None)

\* Transaction::commit.  e: the engine's commit succeeds.
commit(t, e) ==
    /\ t \in made
    /\ UNCHANGED <<made, rw, life, sync>>
    /\ IF ok[t]
       THEN /\ res' = Ret(t, "commit", "TxFinished", None)
            /\ UNCHANGED <<db, ok, tx>>
       ELSE IF ~rw[t]
       THEN /\ res' = Ret(t, "commit", "TxReadonly", None)
            /\ UNCHANGED <<db, ok, tx>>
       ELSE /\ ok' = [ok EXCEPT ![t] = TRUE]
            /\ tx' = [tx EXCEPT ![t] = None]
            /\ IF tx[t] = None \/ tx[t][1].type = "Read"
               THEN /\ res' = Ret(t, "commit", "PanicUnreachable", None)
                    /\ UNCHANGED db
               ELSE IF e
               THEN /\ db' = engine_commit(db, tx[t][1].table)
                    /\ res' = Ret(t, "commit", "Ok", None)
               ELSE /\ db' = engine_abort(db, tx[t][1].table)
                    /\ res' = Ret(t, "commit", "Ds", None)

\* Transaction::exi.
\* Line 149 take()s the engine transaction out of the slot and drops it (an
\* unfinished write transaction is aborted by its drop); line 153 then
\* unwraps the slot it has just emptied.
exi(t, k) ==
    /\ t \in made
    /\ UNCHANGED <<made, ok, rw, life, sync>>
    /\ IF ok[t]
       THEN /\ res' = Ret(t, "exi", "TxFinished", None)
            /\ UNCHANGED <<db, tx>>
       ELSE LET taken == tx[t]
                slot == None
            IN /\ tx' = [tx EXCEPT ![t] = slot]
               /\ db' = IF taken # None /\ taken[1].type = "Write"
                        THEN engine_abort(db, taken[1].table) ELSE db
               /\ IF taken = None
                  THEN res' = Ret(t, "exi", "PanicUnreachable", None)
                  ELSE IF slot = None
                  THEN res' = Ret(t, "exi", "PanicUnwrap", None)
                  ELSE res' = Ret(t, "exi", "Ok",
                                   table_get(slot[1].table, k) # None)

\* Transaction::get.
\* Line 175 take()s and drops the engine transaction as exi does; line 179
\* take()s the emptied slot again and unwraps it.
get(t, k) ==
    /\ t \in made
    /\ UNCHANGED <<made, ok, rw, life, sync>>
    /\ IF ok[t]
       THEN /\ res' = Ret(t, "get", "TxFinished", None)
            /\ UNCHANGED <<db, tx>>
       ELSE LET taken == tx[t]
                slot == None
            IN /\ tx' = [tx EXCEPT ![t] = None]
               /\ db' = IF taken # None /\ taken[1].type = "Write"
                        THEN engine_abort(db, taken[1].table) ELSE db
               /\ IF taken = None
                  THEN res' = Ret(t, "get", "PanicUnreachable", None)
                  ELSE IF slot = None
                  THEN res' = Ret(t, "get", "PanicUnwrap", None)
                  ELSE res' = Ret(t, "get", "Ok",
                                   table_get(slot[1].table, k))

\* Transaction::set.
set(t, k, v) ==
    /\ t \in made
    /\ UNCHANGED <<db, made, ok, rw, life, sync>>
    /\ IF ok[t]
       THEN /\ res' = Ret(t, "set", "TxFinished", None)
            /\ UNCHANGED tx
       ELSE IF ~rw[t]
       THEN /\ res' = Ret(t, "set", "TxReadonly", None)
            /\ UNCHANGED tx
       ELSE IF tx[t] = None
       THEN /\ res' = Ret(t, "set", "PanicUnwrap", None)
            /\ UNCHANGED tx
       ELSE IF tx[t][1].type = "Read"
       THEN /\ res' = Ret(t, "set", "PanicUnreachable", None)
            /\ UNCHANGED tx
       ELSE /\ tx' = [tx EXCEPT ![t] =
                        Some([tx[t][1] EXCEPT !.table = table_insert(tx[t][1].table, k, v)])]
            /\ res' = Ret(t, "set", "Ok", None)

\* put as it would be without the lookup of lines 250-254.
put_Overwrites(t, k, v) ==
    /\ t \in made
    /\ UNCHANGED <<db, made, ok, rw, life, sync>>
    /\ IF ok[t]
       THEN /\ res' = Ret(t, "put", "TxFinished", None)
            /\ UNCHANGED tx
       ELSE IF ~rw[t]
       THEN /\ res' = Ret(t, "put", "TxReadonly", None)
            /\ UNCHANGED tx
       ELSE IF tx[t] = None
       THEN /\ res' = Ret(t, "put", "PanicUnwrap", None)
            /\ UNCHANGED tx
       ELSE IF tx[t][1].type = "Read"
       THEN /\ res' = Ret(t, "put", "PanicUnreachable", None)
            /\ UNCHANGED tx
       ELSE /\ tx' = [tx EXCEPT ![t] =
                        Some([tx[t][1] EXCEPT !.table = table_insert(tx[t][1].table, k, v)])]
            /\ res' = Ret(t, "put", "Ok", None)

\* Transaction::put.
put(t, k, v) ==
    /\ t \in made
    /\ UNCHANGED <<db, made, ok, rw, life, sync>>
    /\ IF ok[t]
       THEN /\ res' = Ret(t, "put", "TxFinished", None)
            /\ UNCHANGED tx
       ELSE IF ~rw[t]
       THEN /\ res' = Ret(t, "put", "TxReadonly", None)
            /\ UNCHANGED tx
       ELSE IF tx[t] = None
       THEN /\ res' = Ret(t, "put", "PanicUnwrap", None)
            /\ UNCHANGED tx
       ELSE IF tx[t][1].type = "Read"
       THEN /\ res' = Ret(t, "put", "PanicUnreachable", None)
            /\ UNCHANGED tx
       ELSE IF table_get(tx[t][1].table, k) # None
       THEN /\ res' = Ret(t, "put", "TxKeyAlreadyExists", None)
            /\ UNCHANGED tx
       ELSE /\ tx' = [tx EXCEPT ![t] =
                        Some([tx[t][1] EXCEPT !.table = table_insert(tx[t][1].table, k, v)])]
            /\ res' = Ret(t, "put", "Ok", None)

\* Transaction::putc.  chk is the Option<V> check value.
putc(t, k, v, chk) ==
    /\ t \in made
    /\ UNCHANGED <<db, made, ok, rw, life, sync>>
    /\ IF ok[t]
       THEN /\ res' = Ret(t, "putc", "TxFinished", None)
            /\ UNCHANGED tx
       ELSE IF ~rw[t]
       THEN /\ res' = Ret(t, "putc", "TxReadonly", None)
            /\ UNCHANGED tx
       ELSE IF tx[t] = None
       THEN /\ res' = Ret(t, "putc", "PanicUnwrap", None)
            /\ UNCHANGED tx
       ELSE IF tx[t][1].type = "Read"
       THEN /\ res' = Ret(t, "putc", "PanicUnreachable", None)
            /\ UNCHANGED tx
       ELSE LET key_result == table_get(tx[t][1].table, k)
                inserted == Some([tx[t][1] EXCEPT !.table = table_insert(tx[t][1].table, k, v)])
            IN IF key_result # None /\ chk # None
               THEN \* (Some(v), Some(w)): insert if equal, Ok(()) either way
                    /\ tx' = [tx EXCEPT ![t] =
                                IF key_result[1] = chk[1] THEN inserted ELSE tx[t]]
                    /\ res' = Ret(t, "putc", "Ok", None)
               ELSE IF key_result = None /\ chk = None
               THEN /\ tx' = [tx EXCEPT ![t] = inserted]
                    /\ res' = Ret(t, "putc", "Ok", None)
               ELSE /\ res' = Ret(t, "putc", "TxConditionNotMet", None)
                    /\ UNCHANGED tx

\* del as it would be if removing a key that is not there were an error.
del_AbsentFails(t, k) ==
    /\ t \in made
    /\ UNCHANGED <<db, made, ok, rw, life, sync>>
    /\ IF ok[t]
       THEN /\ res' = Ret(t, "del", "TxFinished", None)
            /\ UNCHANGED tx
       ELSE IF ~rw[t]
       THEN /\ res' = Ret(t, "del", "TxReadonly", None)
            /\ UNCHANGED tx
       ELSE IF tx[t] = None
       THEN /\ res' = Ret(t, "del", "PanicUnwrap", None)
            /\ UNCHANGED tx
       ELSE IF tx[t][1].type = "Read"
       THEN /\ res' = Ret(t, "del", "PanicUnreachable", None)
            /\ UNCHANGED tx
       ELSE IF table_get(tx[t][1].table, k) = None
       THEN /\ res' = Ret(t, "del", "Ds", None)
            /\ UNCHANGED tx
       ELSE /\ tx' = [tx EXCEPT ![t] =
                        Some([tx[t][1] EXCEPT !.table = table_remove(tx[t][1].table, k)])]
            /\ res' = Ret(t, "del", "Ok", None)

\* Transaction::del.
del(t, k) ==
    /\ t \in made
    /\ UNCHANGED <<db, made, ok, rw, life, sync>>
    /\ IF ok[t]
       THEN /\ res' = Ret(t, "del", "TxFinished", None)
            /\ UNCHANGED tx
       ELSE IF ~rw[t]
       THEN /\ res' = Ret(t, "del", "TxReadonly", None)
            /\ UNCHANGED tx
       ELSE IF tx[t] = None
       THEN /\ res' = Ret(t, "del", "PanicUnwrap", None)
            /\ UNCHANGED tx
       ELSE IF tx[t][1].type = "Read"
       THEN /\ res' = Ret(t, "del", "PanicUnreachable", None)
            /\ UNCHANGED tx
       ELSE /\ tx' = [tx EXCEPT ![t] =
                        Some([tx[t][1] EXCEPT !.table = table_remove(tx[t][1].table, k)])]
            /\ res' = Ret(t, "del", "Ok", None)

\* delc as it would be with the mode check made before the closed check.
delc_ModeFirst(t, k, chk) ==
    /\ t \in made
    /\ UNCHANGED <<db, made, ok, rw, life, sync>>
    /\ IF ~rw[t]
       THEN /\ res' = Ret(t, "delc", "TxReadonly", None)
            /\ UNCHANGED tx
       ELSE IF ok[t]
       THEN /\ res' = Ret(t, "delc", "TxFinished", None)
            /\ UNCHANGED tx
       ELSE IF tx[t] = None
       THEN /\ res' = Ret(t, "delc", "PanicUnwrap", None)
            /\ UNCHANGED tx
       ELSE LET key_result == table_get(tx[t][1].table, k)
                removed == Some([tx[t][1] EXCEPT !.table = table_remove(tx[t][1].table, k)])
            IN IF key_result # None /\ chk # None
               THEN /\ tx' = [tx EXCEPT ![t] =
                                IF key_result[1] = chk[1] THEN removed ELSE tx[t]]
                    /\ res' = Ret(t, "delc", "Ok", None)
               ELSE IF key_result = None /\ chk = None
               THEN /\ tx' = [tx EXCEPT ![t] = removed]
                    /\ res' = Ret(t, "delc", "Ok", None)
               ELSE /\ res' = Ret(t, "delc", "TxConditionNotMet", None)
                    /\ UNCHANGED tx

\* Transaction::delc.  chk is the Option<V> check value.
delc(t, k, chk) ==
    /\ t \in made
    /\ UNCHANGED <<db, made, ok, rw, life, sync>>
    /\ IF ok[t]
       THEN /\ res' = Ret(t, "delc", "TxFinished", None)
            /\ UNCHANGED tx
       ELSE IF ~rw[t]
       THEN /\ res' = Ret(t, "delc", "TxReadonly", None)
            /\ UNCHANGED tx
       ELSE IF tx[t] = None
       THEN /\ res' = Ret(t, "delc", "PanicUnwrap", None)
            /\ UNCHANGED tx
       ELSE IF tx[t][1].type = "Read"
       THEN /\ res' = Ret(t, "delc", "PanicUnreachable", None)
            /\ UNCHANGED tx
       ELSE LET key_result == table_get(tx[t][1].table, k)
                removed == Some([tx[t][1] EXCEPT !.table = table_remove(tx[t][1].table, k)])
            IN IF key_result # None /\ chk # None
               THEN \* (Some(v), Some(w)): remove if equal, Ok(()) either way
                    /\ tx' = [tx EXCEPT ![t] =
                                IF key_result[1] = chk[1] THEN removed ELSE tx[t]]
                    /\ res' = Ret(t, "delc", "Ok", None)
               ELSE IF key_result = None /\ chk = None
               THEN /\ tx' = [tx EXCEPT ![t] = removed]
                    /\ res' = Ret(t, "delc", "Ok", None)
               ELSE /\ res' = Ret(t, "delc", "TxConditionNotMet", None)
                    /\ UNCHANGED tx

\* closure as it would be with the limit compared by <= instead of <.
RECURSIVE closure_OffByOne(_, _, _, _, _)
closure_OffByOne(iter, beg, end, limit, acc) ==
    IF iter = <<>> THEN acc
    ELSE LET k == Head(iter)[1]
             pushed == IF Len(acc) <= limit /\ KeyLeq(beg, k) /\ KeyLess(k, end)
                       THEN Append(acc, Head(iter)) ELSE acc
         IN closure_OffByOne(Tail(iter), beg, end, limit, pushed)

\* The loop of scan's closure over the engine's iterator: an entry is pushed
\* while fewer than limit are held and its key lies in [beg, end).
RECURSIVE closure(_, _, _, _, _)
closure(iter, beg, end, limit, acc) ==
    IF iter = <<>> THEN acc
    ELSE LET k == Head(iter)[1]
             pushed == IF Len(acc) < limit /\ KeyLeq(beg, k) /\ KeyLess(k, end)
                       THEN Append(acc, Head(iter)) ELSE acc
         IN closure(Tail(iter), beg, end, limit, pushed)

\* The result of Transaction::scan without the closed check of lines 389-391.
scan_NoClosedCheck(t, rng, limit) ==
    IF tx[t] = None
    THEN Ret(t, "scan", "PanicUnwrap", None)
    ELSE Ret(t, "scan", "Ok",
             closure(table_range(tx[t][1].table, rng.start, rng.end),
                     rng.start, rng.end, limit, <<>>))

\* The result of Transaction::scan if it read the committed table (a
\* transaction begun for the call) instead of the engine transaction held in
\* the slot.
scan_ReadsCommitted(t, rng, limit) ==
    IF ok[t]
    THEN Ret(t, "scan", "TxFinished", None)
    ELSE IF tx[t] = None
    THEN Ret(t, "scan", "PanicUnwrap", None)
    ELSE Ret(t, "scan", "Ok",
             closure(table_range(db, rng.start, rng.end),
                     rng.start, rng.end, limit, <<>>))

\* What Transaction::scan(rng, limit) returns (lines 388-443).
scan_result(t, rng, limit) ==
    IF ok[t]
    THEN Ret(t, "scan", "TxFinished", None)
    ELSE IF tx[t] = None
    THEN Ret(t, "scan", "PanicUnwrap", None)
    ELSE LET beg == rng.start
             end == rng.end
             generator == table_range(tx[t][1].table, rng.start, rng.end)
         IN Ret(t, "scan", "Ok", closure(generator, beg, end, limit, <<>>))

\* Transaction::scan(rng, limit): it returns its result and changes nothing.
scan(t, rng, limit) ==
    /\ t \in made
    /\ UNCHANGED <<db, made, ok, rw, tx, life, sync>>
    /\ res' = scan_result(t, rng, limit)

Next ==
    \/ \E write \in BOOLEAN, e \in BOOLEAN : transaction(write, e)
    \/ \E t \in TxnIds, e \in BOOLEAN : cancel(t, e)
    \/ \E t \in TxnIds, e \in BOOLEAN : commit(t, e)
    \/ \E t \in TxnIds, k \in Keys : exi(t, k)
    \/ \E t \in TxnIds, k \in Keys : get(t, k)
    \/ \E t \in TxnIds, k \in Keys, v \in Vals : set(t, k, v)
    \/ \E t \in TxnIds, k \in Keys, v \in Vals : put(t, k, v)
    \/ \E t \in TxnIds, k \in Keys, v \in Vals, chk \in OptVal : putc(t, k, v, chk)
    \/ \E t \in TxnIds, k \in Keys : del(t, k)
    \/ \E t \in TxnIds, k \in Keys, chk \in OptVal : delc(t, k, chk)
    \/ \E t \in TxnIds, rng \in ScanRanges, limit \in 0 .. MaxLimit :
          scan(t, rng, limit)

Spec == Init /\ [][Next]_vars

\* The calls of tests::soundness (transaction, put, and the ends of a
\* Transaction) together with the clones and drops that decide how long the
\* engine lives.  A dropped Transaction takes no more calls.
NextLife ==
    \/ \E write \in BOOLEAN, e \in BOOLEAN : transaction(write, e)
    \/ \E t \in alive, k \in Keys, v \in Vals : put(t, k, v)
    \/ \E t \in alive, e \in BOOLEAN : commit(t, e)
    \/ \E t \in alive, e \in BOOLEAN : cancel(t, e)
    \/ clone
    \/ drop_Datastore
    \/ \E t \in TxnIds : drop_Transaction(t)

SpecLife == Init /\ [][NextLife]_vars

\* ------------------------------------------------------------------ lock steps
\* The calls below are exi, get, put, putc and delc taken one lock operation
\* and one table operation at a time.  &mut self admits one call at a time on
\* a Transaction; the caller, as in the tests, awaits each call before it
\* makes the next.
LookupOps == {"exi", "get"}
CheckedOps == {"put", "putc", "delc"}

\* The call returns or unwinds: the MutexGuard, if any, is dropped.
Return(t, op, out, ret) ==
    /\ pc' = [pc EXCEPT ![t] = Idle]
    /\ lock' = [lock EXCEPT ![t] = FALSE]
    /\ res' = Ret(t, op, out, ret)

\* The entry of a call: the tests of self.ok and, in a write operation, of
\* self.rw, made before the lock is asked for.
call(t, op, k, v, chk) ==
    /\ t \in made
    /\ \A u \in TxnIds : pc[u].at = "idle"
    /\ UNCHANGED <<db, made, ok, rw, tx, life>>
    /\ IF ok[t]
       THEN Return(t, op, "TxFinished", None)
       ELSE IF op \in CheckedOps /\ ~rw[t]
       THEN Return(t, op, "TxReadonly", None)
       ELSE /\ pc' = [pc EXCEPT ![t] =
                        [at |-> "lock1", op |-> op, k |-> k,
                         v |-> IF op \in {"put", "putc"} THEN v ELSE Idle.v,
                         chk |-> IF op \in {"putc", "delc"} THEN chk ELSE Idle.chk,
                         seen |-> None]]
            /\ UNCHANGED <<lock, res>>

\* self.tx.lock().await: the first lock of a call, or the second of exi and get.
lock_await(t) ==
    /\ pc[t].at \in {"lock1", "lock2"}
    /\ ~lock[t]
    /\ lock' = [lock EXCEPT ![t] = TRUE]
    /\ pc' = [pc EXCEPT ![t].at = IF pc[t].at = "lock1" THEN "held1" ELSE "held2"]
    /\ UNCHANGED <<db, made, ok, rw, tx, res, life>>

\* exi and get, `if let None = self.tx.lock().await.take() { unreachable!() }`:
\* the slot is emptied, what it held is dropped, and the guard, a temporary
\* of the statement, is dropped at its end.
take_check(t) ==
    /\ pc[t].at = "held1"
    /\ pc[t].op \in LookupOps
    /\ UNCHANGED <<made, ok, rw, life>>
    /\ tx' = [tx EXCEPT ![t] = None]
    /\ db' = IF tx[t] # None /\ tx[t][1].type = "Write"
             THEN engine_abort(db, tx[t][1].table) ELSE db
    /\ IF tx[t] = None
       THEN Return(t, pc[t].op, "PanicUnreachable", None)
       ELSE /\ pc' = [pc EXCEPT ![t].at = "lock2"]
            /\ lock' = [lock EXCEPT ![t] = FALSE]
            /\ UNCHANGED res

\* exi and get, the match under the second lock: the unwrap of the slot and
\* the lookup in the table (get takes the slot once more).
lookup(t) ==
    /\ pc[t].at = "held2"
    /\ UNCHANGED <<db, made, ok, rw, life>>
    /\ IF tx[t] = None
       THEN /\ Return(t, pc[t].op, "PanicUnwrap", None)
            /\ UNCHANGED tx
       ELSE IF pc[t].op = "exi"
       THEN /\ Return(t, "exi", "Ok", table_get(tx[t][1].table, pc[t].k) # None)
            /\ UNCHANGED tx
       ELSE /\ Return(t, "get", "Ok", table_get(tx[t][1].table, pc[t].k))
            /\ tx' = [tx EXCEPT ![t] = None]

\* put, putc and delc under the lock: the unwrap of the slot, the match on
\* the transaction's type and table.get(key), whose value is kept in
\* key_result.
read_current(t) ==
    /\ pc[t].at = "held1"
    /\ pc[t].op \in CheckedOps
    /\ UNCHANGED <<db, made, ok, rw, tx, life>>
    /\ IF tx[t] = None
       THEN Return(t, pc[t].op, "PanicUnwrap", None)
       ELSE IF tx[t][1].type = "Read"
       THEN Return(t, pc[t].op, "PanicUnreachable", None)
       ELSE /\ pc' = [pc EXCEPT ![t].at = "read",
                                ![t].seen = table_get(tx[t][1].table, pc[t].k)]
            /\ UNCHANGED <<lock, res>>

\* put, putc and delc: the write decided by key_result, and the return, which
\* drops the guard.
write_conditional(t) ==
    LET op == pc[t].op
        k == pc[t].k
        chk == pc[t].chk
        key_result == pc[t].seen
        inserted == Some([tx[t][1] EXCEPT !.table = table_insert(tx[t][1].table, k, pc[t].v)])
        removed == Some([tx[t][1] EXCEPT !.table = table_remove(tx[t][1].table, k)])
        written == IF op = "delc" THEN removed ELSE inserted
    IN
    /\ pc[t].at = "read"
    /\ UNCHANGED <<db, made, ok, rw, life>>
    /\ IF op = "put"
       THEN IF key_result # None
            THEN /\ Return(t, op, "TxKeyAlreadyExists", None)
                 /\ UNCHANGED tx
            ELSE /\ Return(t, op, "Ok", None)
                 /\ tx' = [tx EXCEPT ![t] = inserted]
       ELSE IF key_result # None /\ chk # None
       THEN /\ Return(t, op, "Ok", None)
            /\ tx' = [tx EXCEPT ![t] = IF key_result[1] = chk[1] THEN written ELSE tx[t]]
       ELSE IF key_result = None /\ chk = None
       THEN /\ Return(t, op, "Ok", None)
            /\ tx' = [tx EXCEPT ![t] = written]
       ELSE /\ Return(t, op, "TxConditionNotMet", None)
            /\ UNCHANGED tx

\* Transactions are begun and cancelled as in Next, between the data calls,
\* which go step by step.
NextLock ==
    \/ \E write \in BOOLEAN, e \in BOOLEAN :
          (\A u \in TxnIds : pc[u].at = "idle") /\ transaction(write, e)
    \/ \E t \in TxnIds, e \in BOOLEAN :
          (\A u \in TxnIds : pc[u].at = "idle") /\ cancel(t, e)
    \/ \E t \in TxnIds, op \in LookupOps \cup CheckedOps, k \in Keys, v \in Vals,
          chk \in OptVal : call(t, op, k, v, chk)
    \/ \E t \in TxnIds : lock_await(t)
    \/ \E t \in TxnIds : take_check(t)
    \/ \E t \in TxnIds : lookup(t)
    \/ \E t \in TxnIds : read_current(t)
    \/ \E t \in TxnIds : write_conditional(t)

SpecLock == Init /\ [][NextLock]_vars

\* ------------------------------------------------------------------ claims
\* t is open: created and not yet closed
Open(t) == t \in made /\ ~ok[t]
\* the slot of t holds an engine transaction
Held(t) == tx[t] # None
\* the table as the engine transaction of t sees it
View(t) == tx[t][1].table
\* the committed table the engine transaction of t began from
Base(t) == tx[t][1].base
\* the step taken is a call of op on t
Called(t, op) == res'.t = t /\ res'.op = op

\* C1: once a Transaction is closed it stays closed, every later call on it
\* fails with TxFinished and changes neither the store nor the Transaction;
\* ok goes from false to true only in that Transaction's commit or cancel.
C1_ClosedIsFinal ==
    [][\A t \in TxnIds :
          /\ ok[t] => /\ ok'[t]
                      /\ res'.t = t =>
                            /\ res'.out = "TxFinished"
                            /\ UNCHANGED <<db, made, ok, rw, tx>>
          /\ ~ok[t] /\ ok'[t] => res'.t = t /\ res'.op \in {"commit", "cancel"}
      ]_vars

\* C1 witness: a scan on a closed Transaction has failed with TxFinished.
C1_Witness ==
    \E t \in made : ok[t] /\ res.t = t /\ res.op = "scan" /\ res.out = "TxFinished"

\* C2: a write operation on a read-mode Transaction fails with TxReadonly
\* when it is open and with TxFinished when it is closed, and changes nothing.
C2_ReadonlyRejectsWrites ==
    [][\A t \in made :
          ~rw[t] /\ res'.t = t /\ res'.op \in WriteOps =>
             /\ res'.out = IF ok[t] THEN "TxFinished" ELSE "TxReadonly"
             /\ UNCHANGED <<db, made, ok, rw, tx>>
      ]_vars

\* C2 witness: delc on an open read-mode Transaction has failed with
\* TxReadonly, its engine transaction still in place.
C2_Witness ==
    \E t \in made : /\ ~rw[t] /\ ~ok[t] /\ Held(t)
                    /\ res = Ret(t, "delc", "TxReadonly", None)

\* C3: in an open write-mode Transaction, get(k) right after a set that left
\* v under k returns Some(v) and leaves the Transaction open and usable.
C3_SetThenGet ==
    [][\A t \in TxnIds, k \in Keys, v \in Vals :
          /\ Called(t, "get")
          /\ Open(t) /\ rw[t] /\ Held(t)
          /\ res = Ret(t, "set", "Ok", None)
          /\ View(t)[k] = Some(v)
          /\ get(t, k)
          => /\ res'.out = "Ok"
             /\ res'.ret = Some(v)
             /\ ~ok'[t]
             /\ tx'[t] = tx[t]
      ]_vars

\* C4: putc(k, new, expected) writes new under k and returns Ok exactly when
\* the stored Option under k equals expected; otherwise it returns
\* TxConditionNotMet and the table is unchanged.
C4_PutcCompareAndSwap ==
    [][\A t \in TxnIds, k \in Keys, v \in Vals, chk \in OptVal :
          Called(t, "putc") /\ Open(t) /\ rw[t] /\ Held(t) /\ putc(t, k, v, chk) =>
             IF View(t)[k] = chk
             THEN /\ res'.out = "Ok"
                  /\ tx'[t] = Some([tx[t][1] EXCEPT !.table = table_insert(View(t), k, v)])
             ELSE /\ res'.out = "TxConditionNotMet"
                  /\ tx' = tx
      ]_vars

\* C5: delc(k, Some(v)) removes k and returns Ok exactly when v is stored
\* under k; when k holds another value or is absent it returns
\* TxConditionNotMet and the table is unchanged.
C5_DelcCompareAndDelete ==
    [][\A t \in TxnIds, k \in Keys, v \in Vals :
          Called(t, "delc") /\ Open(t) /\ rw[t] /\ Held(t) /\ delc(t, k, Some(v)) =>
             IF View(t)[k] = Some(v)
             THEN /\ res'.out = "Ok"
                  /\ tx'[t] = Some([tx[t][1] EXCEPT !.table = table_remove(View(t), k)])
             ELSE /\ res'.out = "TxConditionNotMet"
                  /\ tx' = tx
      ]_vars

\* C6: in an open write-mode Transaction, put(k, v2) on a key present in its
\* table fails with TxKeyAlreadyExists and leaves the table as it was; put on
\* an absent key returns Ok and stores the value.
C6_PutInsertOnly ==
    [][\A t \in TxnIds, k \in Keys, v \in Vals :
          Called(t, "put") /\ Open(t) /\ rw[t] /\ Held(t) /\ put(t, k, v) =>
             IF View(t)[k] # None
             THEN /\ res'.out = "TxKeyAlreadyExists"
                  /\ tx' = tx
             ELSE /\ res'.out = "Ok"
                  /\ tx'[t] = Some([tx[t][1] EXCEPT !.table = table_insert(View(t), k, v)])
      ]_vars

\* C6 witness: put has failed with TxKeyAlreadyExists in a Transaction that
\* holds a key it inserted itself (absent from the table it began from).
C6_Witness ==
    \E t \in made :
       /\ rw[t] /\ ~ok[t] /\ Held(t)
       /\ res = Ret(t, "put", "TxKeyAlreadyExists", None)
       /\ \E k \in Keys : View(t)[k] # None /\ Base(t)[k] = None
\* C7: cancel on an open write-mode Transaction leaves the committed table
\* as it is, which is the table the Transaction began from, so a transaction
\* begun later (its view starts as the committed table) sees none of the
\* cancelled mutations.
C7_CancelDiscards ==
    [][/\ \A t \in TxnIds :
             Open(t) /\ rw[t] /\ Called(t, "cancel") =>
                /\ db' = db
                /\ Held(t) => db' = Base(t)
                /\ ok'[t] /\ tx'[t] = None
       /\ \A t \in TxnIds :
             Called(t, "transaction") /\ res'.out = "Ok" =>
                tx'[t][1].table = db /\ tx'[t][1].base = db
      ]_vars

\* C7 witness: cancel has returned Ok on a write-mode Transaction that was
\* begun over a non-empty committed table, which is still the committed one.
C7_Witness ==
    \E t \in made :
       /\ rw[t] /\ ok[t] /\ ~Held(t)
       /\ res = Ret(t, "cancel", "Ok", None)
       /\ db # EmptyTable

\* C8: a successful commit of a write-mode Transaction makes the committed
\* table equal to that Transaction's table in one step, nothing else changes
\* the committed table, and a read transaction's get(k) of a key that was
\* committed before it began returns the committed value.
C8_CommitPublishes ==
    [][/\ \A t \in TxnIds :
             Open(t) /\ rw[t] /\ Held(t) /\ Called(t, "commit") /\ res'.out = "Ok" =>
                db' = View(t)
       /\ db' # db => res'.op = "commit" /\ res'.out = "Ok"
       /\ \A t \in TxnIds, k \in Keys :
             /\ Called(t, "get")
             /\ Open(t) /\ ~rw[t] /\ Held(t) /\ Base(t)[k] # None
             /\ get(t, k)
             => res'.out = "Ok" /\ res'.ret = Base(t)[k]
      ]_vars

\* The result of scan(rng, limit) over table tb
ScanOf(tb, rng, limit) ==
    closure(table_range(tb, rng.start, rng.end), rng.start, rng.end, limit, <<>>)

C10_ScanBounded ==
    \A t \in made :
       Open(t) /\ Held(t) =>
          \A rng \in ScanRanges, limit \in 0 .. MaxLimit :
             LET r == scan_result(t, rng, limit).ret IN
                /\ scan_result(t, rng, limit).out = "Ok"
                /\ Len(r) <= limit
                /\ limit = 0 => r = <<>>
                /\ \A i \in 1 .. Len(r) :
                      /\ KeyLeq(rng.start, r[i][1]) /\ KeyLess(r[i][1], rng.end)
                      /\ View(t)[r[i][1]] = Some(r[i][2])
                /\ \A i \in 1 .. Len(r), j \in 1 .. Len(r) :
                      i < j => KeyLess(r[i][1], r[j][1])

\* C10 witness: a scan has returned one entry, cut by its limit from a table
\* that holds two keys in the scanned range.
C10_Witness ==
    \E t \in made :
       /\ ~ok[t] /\ Held(t)
       /\ res.t = t /\ res.op = "scan" /\ res.out = "Ok"
       /\ \A k \in Keys : View(t)[k] # None
       /\ res.ret = ScanOf(View(t), Range(<<1>>, <<3>>), 1)
       /\ Len(res.ret) = 1
\* C11: del(k) in an open write-mode Transaction returns Ok and leaves k
\* absent and every other key as it was; when k was absent already nothing
\* changes at all, so a second del(k) has no further effect.
C11_DelIdempotent ==
    [][\A t \in TxnIds, k \in Keys :
          Called(t, "del") /\ Open(t) /\ rw[t] /\ Held(t) /\ del(t, k) =>
             /\ res'.out = "Ok"
             /\ tx'[t] = Some([tx[t][1] EXCEPT !.table = table_remove(View(t), k)])
             /\ tx'[t][1].table[k] = None
             /\ View(t)[k] = None => UNCHANGED <<db, made, ok, rw, tx>>
      ]_vars

\* C11 witness: del has returned Ok in a write-mode Transaction whose table
\* is the empty one it began from (the key deleted was absent).
C11_Witness ==
    \E t \in made :
       /\ rw[t] /\ ~ok[t] /\ Held(t)
       /\ res = Ret(t, "del", "Ok", None)
       /\ View(t) = EmptyTable /\ Base(t) = EmptyTable

\* C12: exi and get on an open Transaction leave the closed flag, the mode,
\* the engine transaction in the slot (with its pending writes) and the
\* committed table as they were.
C12_LookupsHaveNoEffect ==
    [][\A t \in TxnIds :
          Open(t) /\ (Called(t, "exi") \/ Called(t, "get")) =>
             UNCHANGED <<db, ok, rw, tx>>
      ]_vars

\* The outcomes that are panics, not values of Result<_, Error>.
Panics == {"PanicUnwrap", "PanicUnreachable"}

\* C13: no call ends in a panic.
C13_NoPanic == res.out \notin Panics

\* C15: when the engine fails the commit of an open write-mode Transaction,
\* commit returns the storage error Ds and leaves the Transaction closed with
\* nothing published; the next call on it fails with TxFinished.
C15_FailedCommitCloses ==
    [][\A t \in TxnIds :
          /\ Called(t, "commit") /\ Open(t) /\ rw[t] /\ Held(t) /\ commit(t, FALSE) =>
                /\ res'.out = "Ds"
                /\ ok'[t] /\ tx'[t] = None
                /\ db' = db
          /\ res = Ret(t, "commit", "Ds", None) /\ res'.t = t =>
                /\ res'.out = "TxFinished"
                /\ ok[t] /\ ok'[t]
      ]_vars

\* C15 witness: a commit has returned Ds and its Transaction is closed.
C15_Witness ==
    \E t \in made : rw[t] /\ ok[t] /\ ~Held(t) /\ res = Ret(t, "commit", "Ds", None)

\* C16: cancel on an open Transaction returns Ok and leaves it closed.
C16_CancelNeverFails ==
    [][\A t \in TxnIds :
          Open(t) /\ Called(t, "cancel") => res'.out = "Ok" /\ ok'[t]
      ]_vars

\* C19: the slot of a Transaction holds an engine transaction exactly when
\* the Transaction is open.
C19_SlotFilledIffOpen == \A t \in made : Held(t) <=> ~ok[t]

\* C20: commit on an open read-mode Transaction returns TxReadonly and
\* changes nothing (it stays open, its read transaction stays in the slot);
\* a cancel on it then returns Ok and closes it, and only cancel ever closes
\* a read-mode Transaction.
C20_ReadonlyCommitRefused ==
    [][\A t \in TxnIds :
          Open(t) /\ ~rw[t] =>
             /\ Called(t, "commit") =>
                   res'.out = "TxReadonly" /\ UNCHANGED <<db, made, ok, rw, tx>>
             /\ Called(t, "cancel") /\ Held(t) => res'.out = "Ok" /\ ok'[t]
             /\ ok'[t] => Called(t, "cancel")
      ]_vars

\* C20 witness: commit has returned TxReadonly on a read-mode Transaction
\* that is still open and still holds its read transaction.
C20_Witness ==
    \E t \in made :
       ~rw[t] /\ ~ok[t] /\ Held(t) /\ res = Ret(t, "commit", "TxReadonly", None)

\* C14: the engine is released only when no Datastore and no Transaction is
\* left: while a Transaction lives the Database does, whichever of the
\* Datastore values and Transactions were dropped before, and the strong
\* count is the number of Datastore values and live Transactions.
C14_EngineOutlivesTransactions ==
    /\ rc = handles + Cardinality(alive)
    /\ released <=> handles = 0 /\ alive = {}
    /\ \A t \in TxnIds : Held(t) => t \in alive /\ ~released

\* C14 witness: put has returned Ok in a Transaction whose Datastore, and
\* every clone of it, had been dropped before the call.
C14_Witness ==
    \E t \in alive :
       /\ handles = 0 /\ ~released
       /\ res = Ret(t, "put", "Ok", None)
       /\ Held(t) /\ View(t) # EmptyTable

InProgress == {"held1", "lock2", "held2", "read"}

\* C17: a call that has locked the slot of its Transaction holds the lock
\* until it returns.
C17_LockHeldThroughCall ==
    \A t \in made : pc[t].at \in InProgress => lock[t]
====
